---- MODULE Spec2Model ----
(***************************************************************************)
(* Model of xsd/bcsd.py: the Bias Correction and Statistical Downscaling   *)
(* pipeline (get_bounds, _make_source_grid, _running_mean, _regrid_to,     *)
(* bcsd).                                                                  *)
(*                                                                         *)
(* Coordinates are fixed-point integers in half-degree units, so that      *)
(* 0.5*step is exact for the whole-degree steps the model draws.           *)
(* Data values are integers; means and ratios are exact rationals          *)
(* [num, den] (den = 0 stands for the inf/nan a float division gives).     *)
(*                                                                         *)
(* Two specifications:                                                     *)
(*   Spec      calls of bcsd, _regrid_to and _make_source_grid as the      *)
(*             module's callers can make them, with Python's argument      *)
(*             binding for the signature of _regrid_to;                    *)
(*   SpecBody  the statements of bcsd from line 114 on (climatology,       *)
(*             branch, anomalies, the regrid-back call) applied to         *)
(*             regridded series drawn from bounded sets.                   *)
(***************************************************************************)
EXTENDS Integers, Sequences, FiniteSets, TLC

VARIABLES
    pc,          \* position of the running call
    err,         \* the exception raised, "none" when none
    var,         \* bcsd's var argument
    caller,      \* who called _regrid_to: "none", "direct", "bcsd_step2", "bcsd_step5"
    heap,        \* the xarray objects da_obs, da_train, da_predict (mutable)
    heap0,       \* the objects as the caller passed them (history, never read by the code)
    course_grid, \* bcsd's local course_grid
    dest,        \* _regrid_to's parameter dest
    method,      \* _regrid_to's parameter method
    objs,        \* _regrid_to's parameter *objs
    out,         \* _regrid_to's local out
    regridders,  \* the xe.Regridder objects constructed so far, in order
    i,           \* index of the for loop of _regrid_to
    rg,          \* da_obs_regrid, da_train_regrid, da_predict_regrid
    clim,        \* da_train_regrid_mean
    rolling,     \* da_predict_regrid_rolling_mean
    predict_anoms, \* da_predict_anoms
    qm,          \* da_predict_regrid_qm
    qm_mean,     \* da_predict_regrid_qm_mean
    anoms,       \* da_predict_regrid_anoms
    path         \* the branches of bcsd that have run

vars == <<pc, err, var, caller, heap, heap0, course_grid, dest, method, objs, out,
          regridders, i, rg, clim, rolling, predict_anoms, qm, qm_mean, anoms, path>>

callVars == <<caller, dest, method, objs, out, regridders, i>>
bodyVars == <<rg, clim, rolling, predict_anoms, qm, qm_mean, anoms, path>>

----------------------------------------------------------------------------
(* Bounds of the model *)

MaxN == 3        \* largest number of cell centers on an axis
MaxSources == 2  \* largest number of sources of a direct _regrid_to call
MaxLen == 26     \* largest number of time steps of a series
MaxPer == 11     \* largest number of time steps a series has per calendar month
MaxSeed == 1     \* the data of a series is drawn from MaxSeed + 1 patterns
MaxCells == 2    \* number of cells of the analysis grid
ValMod == 5      \* data values range over ValMod consecutive integers

----------------------------------------------------------------------------
(* Program constants *)

Window == 9          \* time=9, line 133
MonthsPerYear == 12  \* 'time.month' ranges over 1..12
FirstYear == 1979    \* the year the test series start in

----------------------------------------------------------------------------
(* Values *)

\* n degrees in the fixed-point unit (half degrees)
Deg(n) == 2 * n

\* 0.5 * x
Half(x) == x \div 2

SeqMin(s) == CHOOSE x \in {s[k] : k \in DOMAIN s} : \A y \in {s[k] : k \in DOMAIN s} : x <= y
SeqMax(s) == CHOOSE x \in {s[k] : k \in DOMAIN s} : \A y \in {s[k] : k \in DOMAIN s} : x >= y

\* argument values of a call: an xarray object, a string, a grid dictionary
ObjArg(id) == [k |-> "obj", id |-> id]
StrArg(s) == [k |-> "str", id |-> s]
GridArg(s) == [k |-> "grid", id |-> s]
NoArg == [k |-> "none", id |-> "none"]

ObjIds == {"da_obs", "da_train", "da_predict"}

\* the values of var: the documented options and one that is not documented
RecognizedVars == {"pr", "tmin", "tmax", "trange", "tavg"}
Vars == RecognizedVars \cup {"wind"}

\* interpolation methods the regridding operator knows
Methods == {"bilinear", "conservative"}

\* a regular axis of n centers
Axis(start, step, n) == [k \in 1..n |-> start + (k - 1) * step]

NoBounds == <<>>

NewObj(lat, lon) == [lat |-> lat, lon |-> lon, lat_b |-> NoBounds, lon_b |-> NoBounds,
                     vals |-> "data"]

\* the grids the callers' objects are on, steps of whole degrees: latitude
\* descending or ascending, longitude ascending; an axis of one center and an
\* irregular axis are among them
ObsObjects ==
    {NewObj(Axis(Deg(40), 0 - Deg(1), n), Axis(Deg(100), Deg(2), n + 1)) : n \in 2..MaxN}
TrainObjects ==
    {NewObj(Axis(Deg(10), Deg(2), n), Axis(Deg(90), Deg(3), n)) : n \in 1..MaxN}
PredictObjects ==
    {NewObj(Axis(Deg(30), Deg(1), MaxN), Axis(Deg(95), Deg(2), 2)),
     NewObj(<<Deg(30), Deg(32), Deg(36)>>, Axis(Deg(95), Deg(1), MaxN))}

Heaps == {h \in [ObjIds -> ObsObjects \cup TrainObjects \cup PredictObjects] :
             /\ h["da_obs"] \in ObsObjects
             /\ h["da_train"] \in TrainObjects
             /\ h["da_predict"] \in PredictObjects}

----------------------------------------------------------------------------
(* get_bounds, lines 45-48 *)

get_bounds(obj) == [lat |-> <<SeqMin(obj.lat), SeqMax(obj.lat)>>,
                    lon |-> <<SeqMin(obj.lon), SeqMax(obj.lon)>>]

\* xe.util.grid_2d(lon0, lon1, d_lon, lat0, lat1, d_lat), line 110
grid_2d(lon0, lon1, d_lon, lat0, lat1, d_lat) ==
    [lon0 |-> lon0, lon1 |-> lon1, d_lon |-> d_lon,
     lat0 |-> lat0, lat1 |-> lat1, d_lat |-> d_lat]

NoGrid == grid_2d(0, 0, 0, 0, 0, 0)

\* bcsd, lines 109-110
CourseGridOf(obj) ==
    LET bounds == get_bounds(obj)
    IN grid_2d(bounds.lon[1], bounds.lon[2], Deg(1), bounds.lat[1], bounds.lat[2], Deg(1))

----------------------------------------------------------------------------
(* _make_source_grid, lines 51-66 *)

\* np.diff(values[:2])[0]: defined when the axis has two centers at least
HasStep(axis) == Len(axis) >= 2
StepOf(axis) == axis[2] - axis[1]

\* a mutant of BoundsOf: the trailing boundary is left out
BoundsOfNoTrailing(axis, step) == [k \in 1..Len(axis) |-> axis[k] - Half(step)]

\* np.append(values - 0.5*step, values[-1] + 0.5*step)
BoundsOf(axis, step) ==
    Append([k \in 1..Len(axis) |-> axis[k] - Half(step)], axis[Len(axis)] + Half(step))

\* the object after _make_source_grid: lon_b and lat_b are set on the object itself
WithBounds(obj) ==
    LET lon_step == StepOf(obj.lon)
        lat_step == StepOf(obj.lat)
    IN [obj EXCEPT !.lon_b = BoundsOf(obj.lon, lon_step),
                   !.lat_b = BoundsOf(obj.lat, lat_step)]

MakeSourceGridRaises(obj) == ~HasStep(obj.lon) \/ ~HasStep(obj.lat)

----------------------------------------------------------------------------
(* _regrid_to, lines 74-83 *)

\* Python's binding of a call _regrid_to(*pos, **kw) to the signature
\* (dest, method='bilinear', *objs): positional arguments fill dest, then method,
\* the rest is objs; kw is a set of [name, val].
KwNames(kw) == {a.name : a \in kw}
KwVal(kw, name) == (CHOOSE a \in kw : a.name = name).val

BindError(pos, kw) ==
    \/ Len(pos) >= 1 /\ "dest" \in KwNames(kw)
    \/ Len(pos) >= 2 /\ "method" \in KwNames(kw)
    \/ Len(pos) = 0 /\ "dest" \notin KwNames(kw)

BindDest(pos, kw) == IF Len(pos) >= 1 THEN pos[1] ELSE KwVal(kw, "dest")

BindMethod(pos, kw) ==
    IF Len(pos) >= 2 THEN pos[2]
    ELSE IF "method" \in KwNames(kw) THEN KwVal(kw, "method")
    ELSE StrArg("bilinear")

BindObjs(pos, kw) == IF Len(pos) >= 3 THEN SubSeq(pos, 3, Len(pos)) ELSE <<>>

\* the regridder xe.Regridder(obj, dest, method) and the series regridder(obj)
Regridder(obj, d, m) == [src |-> obj, dest |-> d, method |-> m]
Regridded(obj, d, m) == [src |-> obj, grid |-> d, method |-> m]

\* a mutant of Collect: the result is put in front
CollectInFront(o, x) == <<x>> \o o

\* out.append(x), line 82
Collect(o, x) == Append(o, x)

\* xe.Regridder is handed method unvalidated; with a method that is no method
\* name the library may raise or go on
RegridderOutcomes(m) == IF m.k = "str" /\ m.id \in Methods THEN {"ok"} ELSE {"ok", "raise"}

----------------------------------------------------------------------------
(* Spec: the calls *)

Init ==
    /\ pc = "start"
    /\ err = "none"
    /\ var = "none"
    /\ caller = "none"
    /\ heap \in Heaps
    /\ heap0 = heap
    /\ course_grid = NoGrid
    /\ dest = NoArg
    /\ method = NoArg
    /\ objs = <<>>
    /\ out = <<>>
    /\ regridders = <<>>
    /\ i = 0
    /\ rg = <<>>
    /\ clim = <<>>
    /\ rolling = <<>>
    /\ predict_anoms = <<>>
    /\ qm = <<>>
    /\ qm_mean = <<>>
    /\ anoms = <<>>
    /\ path = {}

\* entering _regrid_to with the call's arguments, or TypeError when they do not bind
Enter(who, pos, kw) ==
    IF BindError(pos, kw)
    THEN /\ pc' = "error"
         /\ err' = "TypeError"
         /\ caller' = who
         /\ UNCHANGED <<dest, method, objs, out, regridders, i>>
    ELSE /\ pc' = "loop"
         /\ err' = "none"
         /\ caller' = who
         /\ dest' = BindDest(pos, kw)
         /\ method' = BindMethod(pos, kw)
         /\ objs' = BindObjs(pos, kw)
         /\ out' = <<>>
         /\ regridders' = <<>>
         /\ i' = 1

\* bcsd, lines 109-112: the call _regrid_to(course_grid, da_obs, da_train, da_predict)
BcsdRegridCall ==
    /\ pc = "start"
    /\ course_grid' = CourseGridOf(heap["da_obs"])
    /\ Enter("bcsd_step2",
             <<GridArg("course_grid"), ObjArg("da_obs"), ObjArg("da_train"),
               ObjArg("da_predict")>>, {})
    /\ var' \in Vars
    /\ UNCHANGED <<heap, heap0>>
    /\ UNCHANGED bodyVars

SourceSeqs == UNION {[1..n -> {ObjArg(id) : id \in ObjIds}] : n \in 0..MaxSources}

\* a caller's own call _regrid_to(d, m, *srcs)
RegridToCall ==
    /\ pc = "start"
    /\ \E d \in {ObjArg("da_obs"), GridArg("course_grid")},
          m \in {StrArg(s) : s \in Methods},
          srcs \in SourceSeqs :
          Enter("direct", <<d, m>> \o srcs, {})
    /\ course_grid' = CourseGridOf(heap["da_obs"])
    /\ UNCHANGED <<var, heap, heap0>>
    /\ UNCHANGED bodyVars

\* a caller's own call _regrid_to(d, method=m): no sources
RegridToKwCall ==
    /\ pc = "start"
    /\ \E d \in {ObjArg("da_obs"), GridArg("course_grid")},
          m \in {StrArg(s) : s \in Methods} :
          Enter("direct", <<d>>, {[name |-> "method", val |-> m]})
    /\ course_grid' = CourseGridOf(heap["da_obs"])
    /\ UNCHANGED <<var, heap, heap0>>
    /\ UNCHANGED bodyVars

\* a caller's own call _make_source_grid(obj)
MakeSourceGridCall ==
    /\ pc = "start"
    /\ \E id \in ObjIds :
          IF MakeSourceGridRaises(heap[id])
          THEN /\ pc' = "error"
               /\ err' = "IndexError"
               /\ UNCHANGED heap
          ELSE /\ heap' = [heap EXCEPT ![id] = WithBounds(heap[id])]
               /\ pc' = "returned"
               /\ UNCHANGED err
    /\ UNCHANGED <<var, heap0, course_grid>>
    /\ UNCHANGED callVars
    /\ UNCHANGED bodyVars

\* one iteration of the for loop, lines 79-82
RegridLoop ==
    /\ pc = "loop"
    /\ i <= Len(objs)
    /\ LET id == objs[i].id
       IN IF MakeSourceGridRaises(heap[id])
          THEN /\ pc' = "error"
               /\ err' = "IndexError"
               /\ UNCHANGED <<heap, out, regridders, i>>
          ELSE /\ heap' = [heap EXCEPT ![id] = WithBounds(heap[id])]
               /\ \E outcome \in RegridderOutcomes(method) :
                     IF outcome = "raise"
                     THEN /\ pc' = "error"
                          /\ err' = "ValueError"
                          /\ UNCHANGED <<out, regridders, i>>
                     ELSE /\ regridders' = Append(regridders, Regridder(objs[i], dest, method))
                          /\ out' = Collect(out, Regridded(objs[i], dest, method))
                          /\ i' = i + 1
                          /\ UNCHANGED <<pc, err>>
    /\ UNCHANGED <<var, heap0, course_grid, caller, dest, method, objs>>
    /\ UNCHANGED bodyVars

\* return out, line 83; bcsd unpacks the list into three names, lines 111-112
RegridReturn ==
    /\ pc = "loop"
    /\ i > Len(objs)
    /\ IF caller = "bcsd_step2"
       THEN IF Len(out) = 3
            THEN /\ rg' = out
                 /\ pc' = "climatology"
                 /\ UNCHANGED err
            ELSE /\ pc' = "error"
                 /\ err' = "ValueError"
                 /\ UNCHANGED rg
       ELSE /\ pc' = "returned"
            /\ UNCHANGED <<err, rg>>
    /\ UNCHANGED <<var, heap, heap0, course_grid>>
    /\ UNCHANGED callVars
    /\ UNCHANGED <<clim, rolling, predict_anoms, qm, qm_mean, anoms, path>>

Next ==
    \/ BcsdRegridCall
    \/ RegridToCall
    \/ RegridToKwCall
    \/ MakeSourceGridCall
    \/ RegridLoop
    \/ RegridReturn

Spec == Init /\ [][Next]_vars

----------------------------------------------------------------------------
(* Time axes and series *)

\* the time axis of a series of len steps that starts in month start of
\* FirstYear and has per steps in every calendar month (per = 1: monthly data)
TimeAxis(start, per, len) ==
    [t \in 1..len |->
        LET e == (start - 1) + ((t - 1) \div per)
        IN [y |-> FirstYear + (e \div MonthsPerYear),
            m |-> (e % MonthsPerYear) + 1,
            d |-> ((t - 1) % per) + 1]]

\* the data of a series: one integer per time step and cell
GenVals(len, seed) ==
    [t \in 1..len |-> [c \in 1..MaxCells |->
        (((seed + 1) * t + 2 * c + ((t * t) % 3)) % ValMod) - 1]]

Series(shape, seed) ==
    [time |-> TimeAxis(shape.start, shape.per, shape.len), vals |-> GenVals(shape.len, seed)]

Shape(start, per, len) == [start |-> start, per |-> per, len |-> len]

TrainShapes ==
    {Shape(1, 1, MonthsPerYear), Shape(11, 1, MaxLen), Shape(3, 1, MonthsPerYear - 1),
     Shape(12, 2, MaxLen)}
PredictShapes == {Shape(11, 1, MaxLen), Shape(1, MaxPer, MaxLen), Shape(6, 1, 3)}

TrainSeries == {Series(sh, seed) : sh \in TrainShapes, seed \in 0..MaxSeed}
PredictSeries == {Series(sh, seed) : sh \in PredictShapes, seed \in 0..MaxSeed}
ObsSeries == {Series(Shape(1, 1, MonthsPerYear), 0)}

\* exact rationals
Rat(n, d) == [num |-> n, den |-> d]
FromInt(n) == Rat(n, 1)
NaN == Rat(0, 0)
RatAdd(a, b) == Rat(a.num * b.den + b.num * a.den, a.den * b.den)
RatSub(a, b) == Rat(a.num * b.den - b.num * a.den, a.den * b.den)
RatDiv(a, b) == Rat(a.num * b.den, a.den * b.num)
RatNeg(a) == Rat(0 - a.num, a.den)
RatEq(a, b) == a.den # 0 /\ b.den # 0 /\ a.num * b.den = b.num * a.den

RECURSIVE SumSeq(_)
SumSeq(s) == IF s = <<>> THEN 0 ELSE s[1] + SumSeq(Tail(s))

\* a mutant of Mean: the sum is not divided
MeanAsSum(vs) == Rat(SumSeq(vs), 1)

\* .mean() over the values vs
Mean(vs) == Rat(SumSeq(vs), Len(vs))

\* a mutant of month_of: the day of the month instead of the month
month_of_day(ts) == ts.d

\* the grouping key 'time.month'
month_of(ts) == ts.m

\* the positions, in time order, of the steps of month m
GroupIdx(time, m) ==
    LET InMonth(t) == month_of(time[t]) = m
    IN SelectSeq([t \in 1..Len(time) |-> t], InMonth)

\* the months the series has steps in, ascending
GroupKeys(time) ==
    LET Present(m) == \E t \in 1..Len(time) : month_of(time[t]) = m
    IN SelectSeq([m \in 1..MonthsPerYear |-> m], Present)

\* groupby('time.month').mean(dim='time'), lines 115-116
MonthlyClimatology(s) ==
    LET months == GroupKeys(s.time)
    IN [month |-> months,
        vals |-> [k \in 1..Len(months) |-> [c \in 1..MaxCells |->
                    LET g == GroupIdx(s.time, months[k])
                    IN Mean([j \in 1..Len(g) |-> s.vals[g[j]][c]])]]]

\* a mutant of WindowStart: the window trails the step (center=False)
WindowStartTrailing(k, w) == k - w + 1

\* first position of the window of w steps centered on position k (center=True)
WindowStart(k, w) == k - (w \div 2)

Max2(a, b) == IF a >= b THEN a ELSE b
Min2(a, b) == IF a <= b THEN a ELSE b

\* _running_mean, lines 69-71: obj.rolling(time=w, center=True, min_periods=1).mean()
\* over the values vs of one group; the steps of the window that exist are averaged
_running_mean(vs, w) ==
    [k \in 1..Len(vs) |->
        LET lo == Max2(1, WindowStart(k, w))
            hi == Min2(Len(vs), WindowStart(k, w) + w - 1)
        IN Mean(SubSeq(vs, lo, hi))]

PosIn(g, t) == CHOOSE k \in 1..Len(g) : g[k] = t

\* groupby('time.month').apply(_running_mean, time=9, center=True, min_periods=1),
\* lines 132-134: the groups' results are put back in time order
GroupedRollingMean(s, w) ==
    [time |-> s.time,
     vals |-> [t \in 1..Len(s.time) |-> [c \in 1..MaxCells |->
                 LET g == GroupIdx(s.time, month_of(s.time[t]))
                     col == [j \in 1..Len(g) |-> s.vals[g[j]][c]]
                 IN _running_mean(col, w)[PosIn(g, t)]]]]

\* quantile_mapping_by_group(predict, train, obs, grouper='time.month'): a
\* corrected series of the shape of predict; the correction is the operator's
QuantileMapped(predict, train, obs, seed) ==
    [time |-> predict.time, vals |-> GenVals(Len(predict.time), seed + 2)]

\* a + b and a - b of two series on the same time axis, element by element
SeriesAdd(a, b) ==
    [time |-> a.time,
     vals |-> [t \in 1..Len(a.time) |-> [c \in 1..MaxCells |->
                 RatAdd(a.vals[t][c], b.vals[t][c])]]]

SeriesSub(a, b) ==
    [time |-> a.time,
     vals |-> [t \in 1..Len(a.time) |-> [c \in 1..MaxCells |->
                 RatSub(a.vals[t][c], b.vals[t][c])]]]

AsRat(s) ==
    [time |-> s.time,
     vals |-> [t \in 1..Len(s.time) |-> [c \in 1..MaxCells |-> FromInt(s.vals[t][c])]]]

\* the months of the series that the climatology has no entry for
MissingMonths(s, cl) ==
    {month_of(s.time[t]) : t \in 1..Len(s.time)} \ {cl.month[k] : k \in 1..Len(cl.month)}

ClimAt(cl, m) == cl.vals[CHOOSE k \in 1..Len(cl.month) : cl.month[k] = m]

\* qm.groupby('time.month') / climatology, lines 127-128
GroupedRatio(q, cl) ==
    [time |-> q.time,
     vals |-> [t \in 1..Len(q.time) |-> [c \in 1..MaxCells |->
                 IF month_of(q.time[t]) \in MissingMonths(q, cl) THEN NaN
                 ELSE RatDiv(FromInt(q.vals[t][c]), ClimAt(cl, month_of(q.time[t]))[c])]]]

\* a mutant of BranchIsPr: tavg is sent down the precipitation path too
BranchIsPrOrTavg(v) == v \in {"pr", "tavg"}

\* the test of line 118
BranchIsPr(v) == v = "pr"

\* a mutant of QmMean: the rolling mean alone
QmMeanRollingOnly(roll, q) == roll

\* da_predict_regrid_rolling_mean + da_predict_regrid_qm, lines 147-148
QmMean(roll, q) == SeriesAdd(roll, AsRat(q))

\* da_predict_regrid_qm - da_predict_regrid_qm_mean, lines 151-152
QmAnoms(q, qmean) == SeriesSub(AsRat(q), qmean)

----------------------------------------------------------------------------
(* SpecBody: bcsd from line 114 on *)

InitBody ==
    /\ pc = "climatology"
    /\ err = "none"
    /\ var \in Vars
    /\ caller = "bcsd_step2"
    /\ heap = CHOOSE h \in Heaps : TRUE
    /\ heap0 = heap
    /\ course_grid = CourseGridOf(heap["da_obs"])
    /\ dest = GridArg("course_grid")
    /\ method = NoArg
    /\ objs = <<>>
    /\ out = <<>>
    /\ regridders = <<>>
    /\ i = 0
    /\ \E o \in ObsSeries, tr \in TrainSeries, p \in PredictSeries : rg = <<o, tr, p>>
    /\ clim = <<>>
    /\ rolling = <<>>
    /\ predict_anoms = <<>>
    /\ qm = <<>>
    /\ qm_mean = <<>>
    /\ anoms = <<>>
    /\ path = {}

\* lines 115-116
Climatology ==
    /\ pc = "climatology"
    /\ clim' = MonthlyClimatology(rg[2])
    /\ pc' = "branch"
    /\ UNCHANGED <<err, var, heap, heap0, course_grid>>
    /\ UNCHANGED callVars
    /\ UNCHANGED <<rg, rolling, predict_anoms, qm, qm_mean, anoms, path>>

\* lines 118-128; a month of the corrected series that the climatology lacks
\* makes the grouped division raise or fill in nan, as the library decides
PrBranch ==
    /\ pc = "branch"
    /\ BranchIsPr(var)
    /\ \E seed \in 0..MaxSeed :
        LET q == QuantileMapped(rg[3], rg[2], rg[1], seed)
        IN /\ qm' = q
           /\ \E outcome \in (IF MissingMonths(q, clim) = {} THEN {"ok"} ELSE {"nan", "raise"}) :
                 IF outcome = "raise"
                 THEN /\ pc' = "error"
                      /\ err' = "ValueError"
                      /\ UNCHANGED anoms
                 ELSE /\ anoms' = GroupedRatio(q, clim)
                      /\ pc' = "regrid_back"
                      /\ UNCHANGED err
    /\ path' = path \cup {"pr"}
    /\ UNCHANGED <<var, heap, heap0, course_grid>>
    /\ UNCHANGED callVars
    /\ UNCHANGED <<rg, clim, rolling, predict_anoms, qm_mean>>

\* lines 129-152
TempBranch ==
    /\ pc = "branch"
    /\ ~BranchIsPr(var)
    /\ \E seed \in 0..MaxSeed :
        LET roll == GroupedRollingMean(rg[3], Window)
            q == QuantileMapped(rg[3], rg[2], rg[1], seed)
            qmean == QmMean(roll, q)
        IN /\ rolling' = roll
           /\ predict_anoms' = SeriesSub(AsRat(rg[3]), roll)
           /\ qm' = q
           /\ qm_mean' = qmean
           /\ anoms' = QmAnoms(q, qmean)
    /\ path' = path \cup {"temp"}
    /\ pc' = "regrid_back"
    /\ UNCHANGED <<err, var, heap, heap0, course_grid>>
    /\ UNCHANGED callVars
    /\ UNCHANGED <<rg, clim>>

\* lines 155-156: the call _regrid_to(da_obs, da_predict_regrid_anoms, method='bilinear')
RegridBackCall ==
    /\ pc = "regrid_back"
    /\ Enter("bcsd_step5", <<ObjArg("da_obs"), ObjArg("anoms")>>,
             {[name |-> "method", val |-> StrArg("bilinear")]})
    /\ UNCHANGED <<var, heap, heap0, course_grid>>
    /\ UNCHANGED bodyVars

NextBody ==
    \/ Climatology
    \/ PrBranch
    \/ TempBranch
    \/ RegridBackCall

SpecBody == InitBody /\ [][NextBody]_vars

----------------------------------------------------------------------------
(* Properties *)

Three == <<ObjArg("da_obs"), ObjArg("da_train"), ObjArg("da_predict")>>

\* C1: step 2 of bcsd is one batched regrid call whose destination is the
\* analysis grid, whose method is the bilinear default and whose sources are
\* observed, training, predicted in that order; it yields three series on the
\* analysis grid and bcsd goes on to the climatology.
C1_BatchedRegridOfThree ==
    (caller = "bcsd_step2" /\ pc # "start") =>
        /\ dest = GridArg("course_grid")
        /\ method = StrArg("bilinear")
        /\ objs = Three
        /\ pc \in {"loop", "climatology"}
        /\ pc = "climatology" =>
              /\ Len(rg) = 3
              /\ \A k \in 1..3 : rg[k].src = Three[k] /\ rg[k].grid = GridArg("course_grid")

\* C8: no call changes the objects it is given: every object has the
\* coordinates and values it had when the caller passed it.
C8_InputsUnchanged == heap = heap0

\* C6: a call of _regrid_to with a destination, a method and n >= 0 sources
\* returns n series, the k-th being source k regridded onto the destination
\* with the method, and has constructed one regridder per source.
C6_OnePerSource ==
    (pc = "returned" /\ caller = "direct") =>
        /\ Len(out) = Len(objs)
        /\ Len(regridders) = Len(objs)
        /\ \A k \in 1..Len(objs) :
              /\ out[k].src = objs[k] /\ out[k].grid = dest /\ out[k].method = method
              /\ regridders[k].src = objs[k] /\ regridders[k].dest = dest
              /\ regridders[k].method = method

C6_Witness ==
    /\ pc = "returned" /\ caller = "direct"
    /\ Len(objs) = 2 /\ objs[1] # objs[2]
    /\ method = StrArg("conservative")

\* twice the boundaries of an axis are twice the centers minus the step, and
\* twice the last center plus the step
BoundariesOk(c, b) ==
    LET s == c[2] - c[1]
    IN /\ Len(b) = Len(c) + 1
       /\ \A k \in 1..Len(c) : 2 * b[k] = 2 * c[k] - s
       /\ 2 * b[Len(c) + 1] = 2 * c[Len(c)] + s

\* C7: the boundary array _make_source_grid derives for an axis of N >= 2
\* centers with step s = center[1] - center[0] has N+1 entries, boundary[i] =
\* center[i] - s/2 for i < N and boundary[N] = center[N-1] + s/2, on the
\* latitude and on the longitude axis.
C7_Boundaries ==
    \A id \in ObjIds :
        (heap[id].lon_b # NoBounds \/ heap[id].lat_b # NoBounds) =>
            /\ BoundariesOk(heap[id].lon, heap[id].lon_b)
            /\ BoundariesOk(heap[id].lat, heap[id].lat_b)

C7_Witness ==
    \E id \in ObjIds :
        /\ heap[id].lon_b # NoBounds /\ heap[id].lat_b # NoBounds
        /\ Len(heap[id].lat) >= 3 /\ Len(heap[id].lon) >= 3
        /\ StepOf(heap[id].lat) < 0
        /\ StepOf(heap[id].lat) # StepOf(heap[id].lon)

\* the branch of bcsd has been left
BranchLeft == pc \notin {"climatology", "branch"}
\* the anomalies have been formed
BranchDone == pc = "regrid_back" \/ caller = "bcsd_step5"

\* C2: step 5 of bcsd regrids the anomaly field onto the grid of observed with
\* the bilinear method and completes without error.
C2_RegridBackCompletes ==
    caller = "bcsd_step5" =>
        /\ err = "none"
        /\ pc # "error"
        /\ dest = ObjArg("da_obs")
        /\ method = StrArg("bilinear")
        /\ objs = <<ObjArg("anoms")>>

C4_UnrecognizedRaises ==
    (var \notin RecognizedVars /\ BranchLeft) =>
        /\ err = "VariableClassError"
        /\ path = {}
        /\ ~BranchDone

RECURSIVE SumOver(_, _, _)
\* the sum of the values of series s at cell c over the set T of time steps
SumOver(s, c, T) ==
    IF T = {} THEN 0
    ELSE LET t == CHOOSE u \in T : TRUE IN s.vals[t][c] + SumOver(s, c, T \ {t})

\* months from the first step of the axis to the last, both counted
MonthsSpanned(time) ==
    (time[Len(time)].y * 12 + time[Len(time)].m) - (time[1].y * 12 + time[1].m) + 1

\* C9: the monthly climatology of a series that covers a full year has the 12
\* entries 1..12 on the month axis, no time axis, and at every month and cell
\* the arithmetic mean of the values of the steps in that calendar month.
C9_MonthlyClimatology ==
    (pc # "climatology" /\ MonthsSpanned(rg[2].time) >= 12) =>
        /\ DOMAIN clim = {"month", "vals"}
        /\ Len(clim.month) = 12
        /\ Len(clim.vals) = 12
        /\ \A m \in 1..12 :
              /\ clim.month[m] = m
              /\ \A c \in 1..MaxCells :
                    LET T == {t \in 1..Len(rg[2].time) : rg[2].time[t].m = m}
                    IN /\ clim.vals[m][c].den # 0
                       /\ clim.vals[m][c].num * Cardinality(T)
                            = SumOver(rg[2], c, T) * clim.vals[m][c].den

C9_Witness ==
    /\ pc # "climatology"
    /\ MonthsSpanned(rg[2].time) >= 12
    /\ Len(rg[2].time) > 12
    /\ \E c \in 1..MaxCells : clim.vals[12][c].den > 1 /\ clim.vals[12][c].num # 0

\* the steps of the series in the month of step t
SameMonth(s, t) == {u \in 1..Len(s.time) : s.time[u].m = s.time[t].m}
\* step u is the Occurrence(s, u)-th step of its month
Occurrence(s, u) == Cardinality({v \in SameMonth(s, u) : v <= u})
\* the steps of the month of t at most (Window - 1) / 2 occurrences away from t
WindowOf(s, t) ==
    {u \in SameMonth(s, t) :
        /\ Occurrence(s, u) - Occurrence(s, t) <= (Window - 1) \div 2
        /\ Occurrence(s, t) - Occurrence(s, u) <= (Window - 1) \div 2}

\* C10: the rolling mean of the temperature path is taken within each
\* calendar month: at every time step it is the mean of predicted over the
\* steps of the same month within the centered window of 9 occurrences that
\* exist, so every step has a value and no other month contributes.
C10_GroupedRollingMean ==
    ("temp" \in path) =>
        /\ Len(rolling.vals) = Len(rg[3].time)
        /\ \A t \in 1..Len(rg[3].time) :
              LET W == WindowOf(rg[3], t)
              IN \A c \in 1..MaxCells :
                    /\ rolling.vals[t][c].den # 0
                    /\ rolling.vals[t][c].num * Cardinality(W)
                          = SumOver(rg[3], c, W) * rolling.vals[t][c].den

C10_Witness ==
    /\ "temp" \in path
    /\ \E t \in 1..Len(rg[3].time) :
          /\ Cardinality(WindowOf(rg[3], t)) = Window
          /\ \E u \in SameMonth(rg[3], t) : u < t /\ u \notin WindowOf(rg[3], t)
          /\ \E u \in SameMonth(rg[3], t) : u > t /\ u \notin WindowOf(rg[3], t)
          /\ \E u \in 1..Len(rg[3].time) : u \notin SameMonth(rg[3], t)
          /\ \E c \in 1..MaxCells : rolling.vals[t][c].num # 0

====
